---- MODULE Spec2Model ----
(***************************************************************************)
(* Model of src/app.py: a Streamlit page that fetches top gainers/losers   *)
(* and per-token market data from the CoinGecko API.                       *)
(*                                                                         *)
(* Four specifications share the module:                                   *)
(*   SpecFetch  calls of df_all_durations and get_token_data, one loop     *)
(*              iteration per step, with a clock;                          *)
(*   Spec       the page script, rerun on every user interaction within    *)
(*              one process (tab1, then tab2);                             *)
(*   SpecView   the tab1 view (filter + nlargest) as a pure function;      *)
(*   SpecCache  the Cache Store of spec.md section 4.1, which src/app.py   *)
(*              does not contain (modelled from the spec's words).         *)
(***************************************************************************)
EXTENDS Integers, Sequences, FiniteSets, TLC

VARIABLES
    now,         \* wall clock, seconds
    op,          \* SpecFetch: the function being called: "none", "movers", "token"
    durations,   \* df_all_durations: its durations argument
    i,           \* df_all_durations: number of loop iterations completed
    all_data,    \* df_all_durations: the list of frames appended so far
    reqs,        \* the external requests issued by the current call / page run
    resps,       \* SpecFetch: the responses the current call received
    status,      \* SpecFetch: "idle", "running", "ok", "ValueError", "RequestException"
    result,      \* SpecFetch: the value the call returned (None unless status = "ok")
    first,       \* SpecFetch: the first successful call of the current streak of
                 \* identical calls: [valid, key, result, time]
    pc,          \* Spec: position of the page script
    df,          \* Spec: tab1's df
    memo,        \* Spec: the st.cache_data entry of get_all_tokens (process lifetime)
    tokens_df,   \* Spec: tab2's tokens_df
    query,       \* Spec: the text input
    matches,     \* Spec: tab2's matches
    token_id,    \* the token identifier passed to get_token_data
    token_df,    \* Spec: tab2's token_df
    err,         \* Spec: the unhandled exception that ended the run, or "none"
    runs,        \* Spec: script runs started in this process
    nTokenList,  \* Spec: requests made to the token-list endpoint in this process
    filtered_df, \* SpecView: tab1's filtered_df
    top_coins,   \* SpecView: tab1's top_coins (the chart's rows)
    sel,         \* SpecView: the sidebar widgets' values [duration, coin_type, top_n]
    store,       \* SpecCache: key -> the stored (timestamp, payload), if any
    puts,        \* SpecCache: key -> the latest put made under it, if any
    got          \* SpecCache: the get just made, if the last operation was one:
                 \* [key, max_age, at, value]

vars == <<now, op, durations, i, all_data, reqs, resps, status, result, first,
          pc, df, memo, tokens_df, query, matches, token_id, token_df, err,
          runs, nTokenList, filtered_df, top_coins, sel, store, puts, got>>

fetchVars == <<op, durations, i, all_data, resps, status, result, first>>
pageVars == <<pc, df, memo, tokens_df, query, matches, token_df, err, runs, nTokenList>>
viewVars == <<filtered_df, top_coins, sel>>
cacheVars == <<store, puts, got>>

None == "None"

\* ---------------------------------------------------------------- bounds

\* The clock advances in steps of TickSeconds up to MaxTime.
TickSeconds == 300
MaxTime == 600
\* Script runs per process.
MaxRuns == 3
\* Longest gainers / losers list of a response in SpecView.
MaxRows == 7

\* ------------------------------------------------------- program constants

\* df_all_durations(durations=["1h", "24h", "7d"], top_coins=1000)
DefaultDurations == <<"1h", "24h", "7d">>
DefaultTopCoins == 1000
\* st.sidebar.slider("...", 5, 20, 10)
SliderMin == 5
SliderMax == 20

\* ------------------------------------------------------------ sequences

RECURSIVE Flatten(_)
Flatten(frames) ==
    IF frames = <<>> THEN <<>> ELSE Head(frames) \o Flatten(Tail(frames))

Min(a, b) == IF a <= b THEN a ELSE b

\* ----------------------------------------------- the movers endpoint (input)

\* The API names an entry's change field after the requested duration.
ApiChangeField(d) ==
    CASE d = "1h" -> "usd_1h_change"
      [] d = "24h" -> "usd_24h_change"
      [] d = "7d" -> "usd_7d_change"

Entry(id, d, change) == [id |-> id, field |-> ApiChangeField(d), change |-> change]

JsonDict(hasG, hasL, g, l) ==
    [shape |-> "dict", has_gainers |-> hasG, has_losers |-> hasL,
     top_gainers |-> g, top_losers |-> l]

\* What requests.get(...).json() can yield for one duration: well-formed
\* bodies with G gainers and L losers for (G, L) in (0,0), (0,1), (2,1);
\* a mapping lacking either list; a JSON list; and a transport failure
\* (requests.get raises).
MoversOk(d) ==
    { JsonDict(TRUE, TRUE, <<>>, <<>>),
      JsonDict(TRUE, TRUE, <<>>, <<Entry("doge", d, -4)>>),
      JsonDict(TRUE, TRUE, <<Entry("aave", d, 5), Entry("btc", d, 9)>>,
                           <<Entry("doge", d, -4)>>) }

MoversMalformed(d) ==
    { JsonDict(TRUE, FALSE, <<Entry("aave", d, 5)>>, <<>>),
      JsonDict(FALSE, TRUE, <<>>, <<Entry("doge", d, -4)>>),
      [shape |-> "list", has_gainers |-> FALSE, has_losers |-> FALSE,
       top_gainers |-> <<>>, top_losers |-> <<>>] }

Raised ==
    [shape |-> "raise", has_gainers |-> FALSE, has_losers |-> FALSE,
     top_gainers |-> <<>>, top_losers |-> <<>>]

MoversResponses(d) == MoversOk(d) \cup MoversMalformed(d) \cup {Raised}

\* ------------------------------------------------------ df_all_durations

\* params = {"duration": duration, "vs_currency": "usd", "top_coins": top_coins}
MoversRequest(duration, top) ==
    [endpoint |-> "top_gainers_losers", duration |-> duration,
     top_coins |-> top, ids |-> None]

\* Mutant of WellFormed: the losers list is not looked for.
WellFormed_GainersOnly(data) ==
    data.shape = "dict" /\ data.has_gainers

\* isinstance(data, dict) and "top_gainers" in data and "top_losers" in data
WellFormed(data) ==
    data.shape = "dict" /\ data.has_gainers /\ data.has_losers

\* pd.DataFrame(entries) with the columns "type" and "duration" set
Tagged(entries, type, duration) ==
    [k \in 1..Len(entries) |->
        [id |-> entries[k].id, field |-> entries[k].field,
         change |-> entries[k].change, type |-> type, duration |-> duration]]

\* Mutant of AppendFrames: the losers frame is tagged like the gainers one.
AppendFrames_CopyPaste(frames, data, duration) ==
    frames \o << Tagged(data.top_gainers, "gainer", duration),
                 Tagged(data.top_losers, "gainer", duration) >>

\* One iteration of the loop on a well-formed body: gainers, then losers.
AppendFrames(frames, data, duration) ==
    frames \o << Tagged(data.top_gainers, "gainer", duration),
                 Tagged(data.top_losers, "loser", duration) >>

\* pd.concat(all_data, ignore_index=True)
Concat(frames) == Flatten(frames)

\* The whole call on a list of responses, one per duration: the loop stops
\* at the first response that raises or is malformed.
RECURSIVE MoversLoop(_, _, _, _)
MoversLoop(ds, rs, k, frames) ==
    IF k > Len(ds)
    THEN [status |-> "ok", df |-> Concat(frames), n |-> Len(ds)]
    ELSE IF rs[k].shape = "raise"
    THEN [status |-> "RequestException", df |-> None, n |-> k]
    ELSE IF ~WellFormed(rs[k])
    THEN [status |-> "ValueError", df |-> None, n |-> k]
    ELSE MoversLoop(ds, rs, k + 1, AppendFrames(frames, rs[k], ds[k]))

df_all_durations(ds, rs) == MoversLoop(ds, rs, 1, <<>>)

\* --------------------------------------------------------- get_token_data

\* What requests.get(...).json() can yield for the markets endpoint: a list
\* with the token's row, an empty list, an error mapping
\* {"status": {"error_code": ..., "error_message": ...}}, or a transport
\* failure.
MarketColumns ==
    {"id", "symbol", "current_price", "market_cap", "total_volume",
     "price_change_percentage_1h_in_currency",
     "price_change_percentage_24h_in_currency",
     "price_change_percentage_7d_in_currency"}

MarketRow(id) == [id |-> id, p1h |-> 1, p24h |-> -2, p7d |-> 3]

SnapshotResponses(id) ==
    { [shape |-> "list", rows |-> <<MarketRow(id)>>],
      [shape |-> "list", rows |-> <<>>],
      [shape |-> "dict", rows |-> <<>>],
      [shape |-> "raise", rows |-> <<>>] }

\* params = {"vs_currency": "usd", "ids": token_id, ...}
SnapshotRequest(id) ==
    [endpoint |-> "markets", duration |-> None, top_coins |-> None, ids |-> id]

\* pd.DataFrame(data): a list of rows gives one row each with the rows'
\* keys as columns; the error mapping gives the single column "status"
\* indexed by the inner mapping's two keys.
DataFrame(data) ==
    IF data.shape = "list"
    THEN [columns |-> IF data.rows = <<>> THEN {} ELSE MarketColumns,
          rows |-> data.rows]
    ELSE [columns |-> {"status"}, rows |-> <<"error_code", "error_message">>]

get_token_data(id, data) ==
    IF data.shape = "raise"
    THEN [status |-> "RequestException", df |-> None]
    ELSE [status |-> "ok", df |-> DataFrame(data)]

\* ------------------------------------------------------------- tab1 view

NoSelection == [duration |-> "", coin_type |-> "", top_n |-> 0]

\* {"1h": "usd_1h_change", "24h": "usd_24h_change", "7d": "usd_7d_change"}[duration]
change_col(duration) ==
    CASE duration = "1h" -> "usd_1h_change"
      [] duration = "24h" -> "usd_24h_change"
      [] duration = "7d" -> "usd_7d_change"

\* df[(df["duration"] == duration) & (df["type"] == coin_type)]
Filter(frame, duration, coin_type) ==
    SelectSeq(frame, LAMBDA row : row.duration = duration /\ row.type = coin_type)

\* The columns of the concatenated frame: the union of its rows' keys (a
\* row holds NaN in the change columns of the other durations).
Columns(frame) ==
    {"type", "duration"} \cup {frame[k].field : k \in DOMAIN frame}
       \cup (IF frame = <<>> THEN {} ELSE {"id"})

IsNaN(row, col) == row.field # col

\* Row a comes before row b in frame sorted by col, largest first: NaN
\* last, equal values in their original order (keep="first").
Before(frame, col, a, b) ==
    IF IsNaN(frame[a], col) = IsNaN(frame[b], col)
    THEN IF ~IsNaN(frame[a], col) /\ frame[a].change # frame[b].change
         THEN frame[a].change > frame[b].change
         ELSE a < b
    ELSE IsNaN(frame[b], col)

\* Mutant of nlargest: the first n rows, unsorted (head).
nlargest_Head(frame, n, col) == SubSeq(frame, 1, Min(n, Len(frame)))

\* DataFrame.nlargest(n, col)
nlargest(frame, n, col) ==
    [r \in 1..Min(n, Len(frame)) |->
        frame[CHOOSE k \in DOMAIN frame :
                 Cardinality({j \in DOMAIN frame : Before(frame, col, j, k)}) = r - 1]]

\* --------------------------------------- Cache Store (spec.md section 4.1)

Absent == "absent"
CacheKeys == {"movers:1000", "token:bitcoin"}
Payloads == {"table1", "table2"}
NoEntry == [present |-> FALSE, time |-> 0, payload |-> Absent]
EmptyStore == [k \in CacheKeys |-> NoEntry]
NoGet == [key |-> "", max_age |-> 0, at |-> 0, value |-> Absent]

\* put(key, payload): persists payload with the current time, overwriting
\* any prior entry under key.
cache_put(entries, key, payload, time) ==
    [entries EXCEPT ![key] = [present |-> TRUE, time |-> time, payload |-> payload]]

\* Mutant of cache_get: an entry exactly max_age old still counts as fresh.
cache_get_Inclusive(entries, key, max_age, time) ==
    IF entries[key].present /\ time - entries[key].time <= max_age
    THEN entries[key].payload
    ELSE Absent

\* get(key, max_age): the stored payload only if now - stored_time < max_age;
\* otherwise as if nothing were stored.
cache_get(entries, key, max_age, time) ==
    IF entries[key].present /\ time - entries[key].time < max_age
    THEN entries[key].payload
    ELSE Absent

\* -------------------------------------------------------------- SpecFetch

DurationLists == { DefaultDurations, <<"24h", "7d">> }
TokenIds == {"bitcoin", "tether"}

\* The parameters that define a call's result.
CallKey ==
    IF op = "movers"
    THEN [op |-> "movers", durations |-> durations,
          top_coins |-> DefaultTopCoins, token_id |-> None]
    ELSE [op |-> "token", durations |-> <<>>, top_coins |-> 0,
          token_id |-> token_id]

NoCall ==
    [valid |-> FALSE,
     key |-> [op |-> "none", durations |-> <<>>, top_coins |-> 0, token_id |-> None],
     result |-> None, time |-> 0]

\* The call returns value. first keeps the earliest successful call of a
\* streak of calls with the same key.
Returned(value) ==
    /\ status' = "ok"
    /\ result' = value
    /\ first' = IF first.valid /\ first.key = CallKey'
                THEN first
                ELSE [valid |-> TRUE, key |-> CallKey', result |-> value,
                      time |-> now]

\* Mutant of CallMovers: a call whose key matches a result returned less
\* than 600 seconds ago is answered from that result, without a request.
CallMovers_Cached ==
    /\ status # "running"
    /\ \E ds \in DurationLists :
         LET key == [op |-> "movers", durations |-> ds,
                     top_coins |-> DefaultTopCoins, token_id |-> None] IN
         /\ durations' = ds
         /\ IF first.valid /\ first.key = key /\ now - first.time < 600
            THEN status' = "ok" /\ result' = first.result /\ i' = Len(ds)
            ELSE status' = "running" /\ result' = None /\ i' = 0
    /\ op' = "movers"
    /\ all_data' = <<>>
    /\ reqs' = <<>>
    /\ resps' = <<>>
    /\ UNCHANGED <<now, first, token_id>>

CallMovers ==
    /\ status # "running"
    /\ \E ds \in DurationLists : durations' = ds
    /\ op' = "movers"
    /\ i' = 0
    /\ all_data' = <<>>
    /\ reqs' = <<>>
    /\ resps' = <<>>
    /\ status' = "running"
    /\ result' = None
    /\ UNCHANGED <<now, first, token_id>>

\* Mutant of MoversIterate: a malformed body is skipped and the loop goes on.
MoversIterate_SkipMalformed ==
    /\ status = "running" /\ op = "movers" /\ i < Len(durations)
    /\ LET duration == durations[i + 1] IN
       \E data \in MoversResponses(duration) :
          /\ reqs' = Append(reqs, MoversRequest(duration, DefaultTopCoins))
          /\ resps' = Append(resps, data)
          /\ IF data.shape = "raise"
             THEN status' = "RequestException" /\ UNCHANGED <<i, all_data>>
             ELSE IF WellFormed(data)
             THEN /\ all_data' = AppendFrames(all_data, data, duration)
                  /\ i' = i + 1
                  /\ UNCHANGED status
             ELSE i' = i + 1 /\ UNCHANGED <<status, all_data>>
    /\ UNCHANGED <<now, op, durations, result, first, token_id>>

MoversIterate ==
    /\ status = "running" /\ op = "movers" /\ i < Len(durations)
    /\ LET duration == durations[i + 1] IN
       \E data \in MoversResponses(duration) :
          /\ reqs' = Append(reqs, MoversRequest(duration, DefaultTopCoins))
          /\ resps' = Append(resps, data)
          /\ IF data.shape = "raise"
             THEN status' = "RequestException" /\ UNCHANGED <<i, all_data>>
             ELSE IF WellFormed(data)
             THEN /\ all_data' = AppendFrames(all_data, data, duration)
                  /\ i' = i + 1
                  /\ UNCHANGED status
             ELSE status' = "ValueError" /\ UNCHANGED <<i, all_data>>
    /\ UNCHANGED <<now, op, durations, result, first, token_id>>

MoversReturn ==
    /\ status = "running" /\ op = "movers" /\ i = Len(durations)
    /\ UNCHANGED <<now, op, durations, i, all_data, reqs, resps, token_id>>
    /\ Returned(Concat(all_data))

CallToken ==
    /\ status # "running"
    /\ \E id \in TokenIds : \E data \in SnapshotResponses(id) :
         LET r == get_token_data(id, data) IN
         /\ token_id' = id
         /\ op' = "token"
         /\ reqs' = <<SnapshotRequest(id)>>
         /\ resps' = <<data>>
         /\ durations' = <<>> /\ i' = 0 /\ all_data' = <<>>
         /\ IF r.status = "ok"
            THEN Returned(r.df)
            ELSE status' = r.status /\ result' = None /\ UNCHANGED first
    /\ UNCHANGED now

Tick ==
    /\ now + TickSeconds <= MaxTime
    /\ now' = now + TickSeconds

FetchTick ==
    /\ status # "running"
    /\ Tick
    /\ UNCHANGED <<fetchVars, reqs, token_id>>

InitFetch ==
    /\ now = 0 /\ op = "none" /\ durations = <<>> /\ i = 0 /\ all_data = <<>>
    /\ reqs = <<>> /\ resps = <<>> /\ status = "idle" /\ result = None
    /\ first = NoCall /\ token_id = None
    /\ pc = "idle" /\ df = <<>> /\ memo = [valid |-> FALSE, value |-> <<>>]
    /\ tokens_df = <<>> /\ query = <<>> /\ matches = <<>>
    /\ token_df = [columns |-> {}, rows |-> <<>>] /\ err = "none"
    /\ runs = 0 /\ nTokenList = 0
    /\ filtered_df = <<>> /\ top_coins = <<>> /\ sel = NoSelection
    /\ store = EmptyStore /\ puts = EmptyStore /\ got = NoGet

NextFetch ==
    \/ (CallMovers /\ UNCHANGED <<pageVars, viewVars, cacheVars>>)
    \/ (MoversIterate /\ UNCHANGED <<pageVars, viewVars, cacheVars>>)
    \/ (MoversReturn /\ UNCHANGED <<pageVars, viewVars, cacheVars>>)
    \/ (CallToken /\ UNCHANGED <<pageVars, viewVars, cacheVars>>)
    \/ (FetchTick /\ UNCHANGED <<pageVars, viewVars, cacheVars>>)

SpecFetch == InitFetch /\ [][NextFetch]_vars

\* ---------------------------------------------------------------- strings

\* A string is a sequence of one-character strings.
LowerCase ==
    <<"a", "b", "c", "d", "e", "f", "g", "h", "i", "j", "k", "l", "m",
      "n", "o", "p", "q", "r", "s", "t", "u", "v", "w", "x", "y", "z">>
UpperCase ==
    <<"A", "B", "C", "D", "E", "F", "G", "H", "I", "J", "K", "L", "M",
      "N", "O", "P", "Q", "R", "S", "T", "U", "V", "W", "X", "Y", "Z">>

ToLower(c) ==
    IF \E k \in DOMAIN UpperCase : UpperCase[k] = c
    THEN LowerCase[CHOOSE k \in DOMAIN UpperCase : UpperCase[k] = c]
    ELSE c

ToUpper(c) ==
    IF \E k \in DOMAIN LowerCase : LowerCase[k] = c
    THEN UpperCase[CHOOSE k \in DOMAIN LowerCase : LowerCase[k] = c]
    ELSE c

\* str.upper()
Upper(str) == [k \in 1..Len(str) |-> ToUpper(str[k])]

\* ---------------------------------------------------------- get_all_tokens

Token(id, name, symbol) == [id |-> id, name |-> name, symbol |-> symbol]

Bitcoin ==
    Token("bitcoin", <<"B", "i", "t", "c", "o", "i", "n">>, <<"b", "t", "c">>)
WrappedBitcoin ==
    Token("wrapped-bitcoin",
          <<"W", "r", "a", "p", "p", "e", "d", " ", "B", "i", "t", "c", "o", "i", "n">>,
          <<"w", "b", "t", "c">>)
Yearn ==
    Token("yearn-finance",
          <<"y", "e", "a", "r", "n", ".", "f", "i", "n", "a", "n", "c", "e">>,
          <<"y", "f", "i">>)

\* What requests.get(...).json() can yield for the token-list endpoint: a
\* list of tokens, or a failure (requests.get raising, or a body from which
\* lines 57-58 cannot build the frame).
TokenListResponses ==
    { [shape |-> "list", tokens |-> <<Bitcoin, WrappedBitcoin, Yearn>>],
      [shape |-> "list", tokens |-> <<Bitcoin, WrappedBitcoin>>],
      [shape |-> "raise", tokens |-> <<>>] }

TokenListRequest ==
    [endpoint |-> "list", duration |-> None, top_coins |-> None, ids |-> None]

\* tokens_df["name"] + " (" + tokens_df["symbol"].str.upper() + ")"
search_name(t) == t.name \o <<" ", "(">> \o Upper(t.symbol) \o <<")">>

\* The body of get_all_tokens, run when st.cache_data holds no entry.
get_all_tokens(data) ==
    IF data.shape = "raise"
    THEN [status |-> "Exception", df |-> <<>>]
    ELSE [status |-> "ok",
          df |-> [k \in 1..Len(data.tokens) |->
                    [id |-> data.tokens[k].id, name |-> data.tokens[k].name,
                     symbol |-> data.tokens[k].symbol,
                     search_name |-> search_name(data.tokens[k])]]]

\* ------------------------------------------------- str.contains (tab2)

\* Series.str.contains(pat, case=False, na=False) keeps its default
\* regex=True: pat is compiled as a regular expression with re.IGNORECASE
\* and searched for. Over the characters used here the expressions are
\* made of literals, "." (any character) and groups "(" ... ")".

\* re.compile raises re.error unless the parentheses are balanced.
RECURSIVE ParenDepth(_, _)
ParenDepth(pat, depth) ==
    IF depth < 0 THEN -1
    ELSE IF pat = <<>> THEN depth
    ELSE IF Head(pat) = "(" THEN ParenDepth(Tail(pat), depth + 1)
    ELSE IF Head(pat) = ")" THEN ParenDepth(Tail(pat), depth - 1)
    ELSE ParenDepth(Tail(pat), depth)

ReCompiles(pat) == ParenDepth(pat, 0) = 0

IsParen(c) == c \in {"(", ")"}
NotParen(c) == ~IsParen(c)

\* A group only captures: the expression matches what its atoms match.
ReAtoms(pat) == SelectSeq(pat, NotParen)

ReMatchesAt(str, pos, atoms) ==
    \A k \in 1..Len(atoms) :
        \/ atoms[k] = "."
        \/ ToLower(atoms[k]) = ToLower(str[pos + k - 1])

\* re.search(pat, str, re.IGNORECASE) is not None, for a pat that compiles
ReSearch(str, pat) ==
    LET atoms == ReAtoms(pat) IN
    \E pos \in 1..(Len(str) - Len(atoms) + 1) : ReMatchesAt(str, pos, atoms)

\* tokens_df["search_name"].str.contains(query, case=False, na=False)
str_contains(str, pat) == ReSearch(str, pat)

IsMatch(row, pat) == str_contains(row.search_name, pat)

\* tokens_df[tokens_df["search_name"].str.contains(query, ...)]
Matches(frame, pat) == SelectSeq(frame, LAMBDA row : IsMatch(row, pat))

\* matches[matches["search_name"] == token_choice]["id"].iloc[0]
ChosenId(frame, choice) ==
    LET k == CHOOSE k \in DOMAIN frame :
                /\ frame[k].search_name = choice
                /\ \A j \in 1..(k - 1) : frame[j].search_name # choice
    IN frame[k].id

\* The text the user can have typed: "", "btc", "BTC", "bit", "xyz", ".",
\* "(", "((", "(btc)".
Queries ==
    { <<>>, <<"b", "t", "c">>, <<"B", "T", "C">>, <<"b", "i", "t">>,
      <<"x", "y", "z">>, <<".">>, <<"(">>, <<"(", "(">>,
      <<"(", "b", "t", "c", ")">> }

\* ------------------------------------------------------- the page script

NoFrame == [columns |-> {}, rows |-> <<>>]
NoMemo == [valid |-> FALSE, value |-> <<>>]

RunEnded == pc \in {"idle", "done", "exception"}

\* Streamlit runs the script from the top on the first load and on every
\* interaction; the script's variables start afresh, st.cache_data's
\* entries live on.
StartRun ==
    /\ RunEnded
    /\ runs < MaxRuns
    /\ runs' = runs + 1
    /\ pc' = "tab1"
    /\ df' = <<>> /\ tokens_df' = <<>> /\ query' = <<>> /\ matches' = <<>>
    /\ token_id' = None /\ token_df' = NoFrame /\ err' = "none"
    /\ reqs' = <<>>
    /\ UNCHANGED <<now, memo, nTokenList>>

MoversRequests(n) ==
    [k \in 1..n |-> MoversRequest(DefaultDurations[k], DefaultTopCoins)]

\* with tab1: df = df_all_durations()
Tab1Fetch ==
    /\ pc = "tab1"
    /\ \E r1 \in MoversResponses(DefaultDurations[1]) :
       \E r2 \in MoversResponses(DefaultDurations[2]) :
       \E r3 \in MoversResponses(DefaultDurations[3]) :
          LET r == df_all_durations(DefaultDurations, <<r1, r2, r3>>) IN
          /\ reqs' = reqs \o MoversRequests(r.n)
          /\ IF r.status = "ok"
             THEN df' = r.df /\ pc' = "tab1_view" /\ UNCHANGED err
             ELSE err' = r.status /\ pc' = "exception" /\ UNCHANGED df
    /\ UNCHANGED <<now, memo, tokens_df, query, matches, token_id, token_df,
                   runs, nTokenList>>

\* The sidebar widgets, the table and the chart of tab1 read df and write
\* nothing the rest of the script reads (SpecView models them).
Tab1Show ==
    /\ pc = "tab1_view"
    /\ pc' = "tab2"
    /\ UNCHANGED <<now, df, memo, tokens_df, query, matches, token_id,
                   token_df, err, runs, nTokenList, reqs>>

\* Mutant of Tab2Tokens: get_all_tokens without @st.cache_data.
Tab2Tokens_Undecorated ==
    /\ pc = "tab2"
    /\ \E data \in TokenListResponses :
         LET r == get_all_tokens(data) IN
         /\ reqs' = Append(reqs, TokenListRequest)
         /\ nTokenList' = nTokenList + 1
         /\ IF r.status = "ok"
            THEN /\ memo' = [valid |-> TRUE, value |-> r.df]
                 /\ tokens_df' = r.df
                 /\ pc' = "search"
                 /\ UNCHANGED err
            ELSE /\ err' = r.status
                 /\ pc' = "exception"
                 /\ UNCHANGED <<memo, tokens_df>>
    /\ UNCHANGED <<now, df, query, matches, token_id, token_df, runs>>

\* with tab2: tokens_df = get_all_tokens(), under @st.cache_data: the body
\* runs when no entry is stored, its return value is stored, and an
\* exception stores nothing.
Tab2Tokens ==
    /\ pc = "tab2"
    /\ IF memo.valid
       THEN /\ tokens_df' = memo.value
            /\ pc' = "search"
            /\ UNCHANGED <<memo, reqs, nTokenList, err>>
       ELSE \E data \in TokenListResponses :
              LET r == get_all_tokens(data) IN
              /\ reqs' = Append(reqs, TokenListRequest)
              /\ nTokenList' = nTokenList + 1
              /\ IF r.status = "ok"
                 THEN /\ memo' = [valid |-> TRUE, value |-> r.df]
                      /\ tokens_df' = r.df
                      /\ pc' = "search"
                      /\ UNCHANGED err
                 ELSE /\ err' = r.status
                      /\ pc' = "exception"
                      /\ UNCHANGED <<memo, tokens_df>>
    /\ UNCHANGED <<now, df, query, matches, token_id, token_df, runs>>

\* query = st.text_input(...); if query: matches = ...; if not matches.empty:
Tab2Search ==
    /\ pc = "search"
    /\ \E q \in Queries :
         /\ query' = q
         /\ IF q = <<>>
            THEN pc' = "done" /\ UNCHANGED <<matches, err>>
            ELSE IF ~ReCompiles(q)
            THEN pc' = "exception" /\ err' = "re.error" /\ UNCHANGED matches
            ELSE /\ matches' = Matches(tokens_df, q)
                 /\ pc' = IF matches' = <<>> THEN "done" ELSE "select"
                 /\ UNCHANGED err
    /\ UNCHANGED <<now, df, memo, tokens_df, token_id, token_df, runs,
                   nTokenList, reqs>>

\* token_choice = st.selectbox(...); token_id = ...; token_df =
\* get_token_data(token_id); if not token_df.empty: st.dataframe(token_df[[...]])
Tab2Snapshot ==
    /\ pc = "select"
    /\ \E k \in DOMAIN matches :
         LET token_choice == matches[k].search_name
             id == ChosenId(matches, token_choice)
         IN \E data \in SnapshotResponses(id) :
              LET r == get_token_data(id, data) IN
              /\ token_id' = id
              /\ reqs' = Append(reqs, SnapshotRequest(id))
              /\ IF r.status # "ok"
                 THEN err' = r.status /\ pc' = "exception" /\ UNCHANGED token_df
                 ELSE /\ token_df' = r.df
                      /\ IF r.df.rows # <<>> /\ ~(MarketColumns \subseteq r.df.columns)
                         THEN err' = "KeyError" /\ pc' = "exception"
                         ELSE pc' = "done" /\ UNCHANGED err
    /\ UNCHANGED <<now, df, memo, tokens_df, query, matches, runs, nTokenList>>

PageTick ==
    /\ RunEnded
    /\ Tick
    /\ UNCHANGED <<pageVars, reqs, token_id>>

Init ==
    /\ now = 0 /\ op = "none" /\ durations = <<>> /\ i = 0 /\ all_data = <<>>
    /\ reqs = <<>> /\ resps = <<>> /\ status = "idle" /\ result = None
    /\ first = NoCall /\ token_id = None
    /\ pc = "idle" /\ df = <<>> /\ memo = NoMemo /\ tokens_df = <<>>
    /\ query = <<>> /\ matches = <<>> /\ token_df = NoFrame /\ err = "none"
    /\ runs = 0 /\ nTokenList = 0
    /\ filtered_df = <<>> /\ top_coins = <<>> /\ sel = NoSelection
    /\ store = EmptyStore /\ puts = EmptyStore /\ got = NoGet

Next ==
    \/ (StartRun /\ UNCHANGED <<fetchVars, viewVars, cacheVars>>)
    \/ (Tab1Fetch /\ UNCHANGED <<fetchVars, viewVars, cacheVars>>)
    \/ (Tab1Show /\ UNCHANGED <<fetchVars, viewVars, cacheVars>>)
    \/ (Tab2Tokens /\ UNCHANGED <<fetchVars, viewVars, cacheVars>>)
    \/ (Tab2Search /\ UNCHANGED <<fetchVars, viewVars, cacheVars>>)
    \/ (Tab2Snapshot /\ UNCHANGED <<fetchVars, viewVars, cacheVars>>)
    \/ (PageTick /\ UNCHANGED <<fetchVars, viewVars, cacheVars>>)

Spec == Init /\ [][Next]_vars

\* ------------------------------------------------------ claims under Spec

\* str contains q as a substring, letter case disregarded.
ContainsIgnoringCase(str, q) ==
    \E pos \in 1..(Len(str) - Len(q) + 1) :
       \A k \in 1..Len(q) : ToLower(q[k]) = ToLower(str[pos + k - 1])

SubstringMatches(frame, q) ==
    SelectSeq(frame, LAMBDA row : ContainsIgnoringCase(row.search_name, q))

\* The run has gone through "if query:" (tokens_df is never empty once set).
Searched == pc \in {"select", "done", "exception"} /\ tokens_df # <<>>

SnapshotRequested == \E k \in DOMAIN reqs : reqs[k].endpoint = "markets"

\* C6 as stated: the token-list endpoint is requested at most once in the
\* life of the process.
C6_TokenListRequestedAtMostOnce == nTokenList <= 1

\* C6 as amended: once a get_all_tokens call has succeeded, the process
\* never requests the token-list endpoint again and every later call
\* returns the stored index, however much time has passed (a call that
\* fails stores nothing, so the next call requests the endpoint again).
C6_OnceFetchedNeverRefetched ==
    [][ /\ memo.valid => (memo' = memo /\ nTokenList' = nTokenList)
        /\ (pc = "tab2" /\ pc' = "search") =>
              (memo'.valid /\ tokens_df' = memo'.value) ]_vars

C6_Witness ==
    /\ pc = "search" /\ runs >= 2 /\ now > 0
    /\ memo.valid /\ tokens_df = memo.value
    /\ nTokenList = 1
    /\ \A k \in DOMAIN reqs : reqs[k].endpoint # "list"

\* C7: for a non-empty query the search yields exactly the tokens whose
\* label "<name> (<SYMBOL>)" contains the query as a substring, letter case
\* disregarded.
C7_SearchIsSubstringMatch ==
    (Searched /\ query # <<>>) =>
       /\ err # "re.error"
       /\ matches = SubstringMatches(tokens_df, query)

\* C8: a failed movers or token-snapshot fetch (malformed body, transport
\* failure, error body) never ends the run of the page with an unhandled
\* exception.
C8_FetchFailureIsHandled ==
    pc = "exception" => err \notin {"ValueError", "RequestException", "KeyError"}

\* C10: a snapshot is requested only for a non-empty query that some label
\* contains, and then for the identifier of a matching token; an empty
\* query, or one that no label contains, requests no snapshot and ends the
\* run without an error.
C10_SnapshotOnlyForAMatch ==
    /\ SnapshotRequested =>
          /\ query # <<>>
          /\ \E k \in DOMAIN tokens_df :
               /\ ContainsIgnoringCase(tokens_df[k].search_name, query)
               /\ tokens_df[k].id = token_id
    /\ (Searched /\ SubstringMatches(tokens_df, query) = <<>>) =>
          /\ ~SnapshotRequested
          /\ pc = "done" /\ err = "none"

\* --------------------------------------------------------------- SpecView

CoinIds == <<"c1", "c2", "c3", "c4", "c5", "c6", "c7", "c8", "c9", "c10">>

\* The first n gainers (losers) of a response: changes out of order and
\* with ties, 2 3 4 1 2 3 4 ... (-4 -3 -2 -1 -4 -3 ...).
ViewGainers(n, d) == [k \in 1..n |-> Entry(CoinIds[k], d, 1 + ((k * 5) % 4))]
ViewLosers(n, d) == [k \in 1..n |-> Entry(CoinIds[k], d, 0 - (1 + ((k * 3) % 4)))]

ViewResponses(d) ==
    { JsonDict(TRUE, TRUE, ViewGainers(g, d), ViewLosers(l, d)) :
         g \in {0, 3, MaxRows}, l \in {0, MaxRows - 1} }

InitView ==
    /\ \E r1 \in ViewResponses(DefaultDurations[1]) :
       \E r2 \in ViewResponses(DefaultDurations[2]) :
       \E r3 \in ViewResponses(DefaultDurations[3]) :
          df = df_all_durations(DefaultDurations, <<r1, r2, r3>>).df
    /\ filtered_df = <<>> /\ top_coins = <<>> /\ sel = NoSelection
    /\ now = 0 /\ op = "none" /\ durations = <<>> /\ i = 0 /\ all_data = <<>>
    /\ reqs = <<>> /\ resps = <<>> /\ status = "idle" /\ result = None
    /\ first = NoCall /\ token_id = None
    /\ pc = "tab1_view" /\ memo = NoMemo /\ tokens_df = <<>>
    /\ query = <<>> /\ matches = <<>> /\ token_df = NoFrame /\ err = "none"
    /\ runs = 1 /\ nTokenList = 0
    /\ store = EmptyStore /\ puts = EmptyStore /\ got = NoGet

\* Lines 103-115, executed once in a run: the widgets' values, filtered_df,
\* and the chart's rows when the change column exists.
Tab1View ==
    /\ sel = NoSelection
    /\ \E duration \in {"1h", "24h", "7d"}, coin_type \in {"gainer", "loser"},
         top_n \in SliderMin..SliderMax :
         /\ sel' = [duration |-> duration, coin_type |-> coin_type, top_n |-> top_n]
         /\ filtered_df' = Filter(df, duration, coin_type)
         /\ top_coins' =
               IF change_col(duration) \in Columns(df)
               THEN nlargest(filtered_df', top_n, change_col(duration))
               ELSE <<>>

NextView ==
    Tab1View /\ UNCHANGED <<now, reqs, token_id, fetchVars, pageVars, cacheVars>>

SpecView == InitView /\ [][NextView]_vars

\* -------------------------------------------------------------- SpecCache

CachePut ==
    \E key \in CacheKeys, payload \in Payloads :
       /\ store' = cache_put(store, key, payload, now)
       /\ puts' = [puts EXCEPT ![key] =
                     [present |-> TRUE, time |-> now, payload |-> payload]]
       /\ got' = NoGet
       /\ UNCHANGED now

CacheGet ==
    \E key \in CacheKeys, max_age \in {TickSeconds, 2 * TickSeconds} :
       /\ got' = [key |-> key, max_age |-> max_age, at |-> now,
                  value |-> cache_get(store, key, max_age, now)]
       /\ UNCHANGED <<now, store, puts>>

CacheTick == Tick /\ got' = NoGet /\ UNCHANGED <<store, puts>>

NextCache ==
    \/ (CachePut /\ UNCHANGED <<reqs, token_id, fetchVars, pageVars, viewVars>>)
    \/ (CacheGet /\ UNCHANGED <<reqs, token_id, fetchVars, pageVars, viewVars>>)
    \/ (CacheTick /\ UNCHANGED <<reqs, token_id, fetchVars, pageVars, viewVars>>)

SpecCache == Init /\ [][NextCache]_vars

\* ------------------------------------- claims under SpecView and SpecCache

C5_GetReturnsFreshPut ==
    got.key # "" =>
       LET last == puts[got.key] IN
       /\ (last.present /\ got.at - last.time < got.max_age) =>
             got.value = last.payload
       /\ ~(last.present /\ got.at - last.time < got.max_age) =>
             got.value = Absent

C5_Witness ==
    /\ got.key # "" /\ got.value # Absent
    /\ got.at = now
    /\ got.at - puts[got.key].time = TickSeconds
    /\ got.max_age = 2 * TickSeconds

\* ------------------------------------------------- claims under SpecFetch

Count(rows, P(_)) == Cardinality({k \in DOMAIN rows : P(rows[k])})

Range(f) == {f[k] : k \in DOMAIN f}

\* A body that is not a mapping holding both lists (stated on the response,
\* independently of WellFormed).
Malformed(data) ==
    /\ data.shape # "raise"
    /\ ~(data.shape = "dict" /\ data.has_gainers /\ data.has_losers)

\* The call that has just returned repeats, less than 600 seconds later, an
\* earlier successful call with the same parameters.
SecondCall ==
    /\ status = "ok"
    /\ first.valid /\ first.key = CallKey
    /\ first.time < now /\ now - first.time < 600

C2_MalformedIsFatal ==
    op = "movers" =>
       \A k \in 1..Len(resps) :
          Malformed(resps[k]) =>
             /\ status = "ValueError"
             /\ result = None
             /\ k = Len(resps)
             /\ Len(reqs) = k
             /\ \A j \in 1..k : reqs[j].duration = durations[j]
             /\ ~memo.valid

C2_Witness ==
    /\ op = "movers"
    /\ status = "ValueError"
    /\ Len(resps) = 2
    /\ Malformed(resps[2])
    /\ Len(Concat(all_data)) = 3

\* C3: a successful call returns, for every requested duration d, exactly
\* G_d rows tagged (gainer, d) and L_d rows tagged (loser, d), G_d + L_d
\* rows of duration d in all, and no row of another duration or type.
C3_NormalizationCounts ==
    (status = "ok" /\ op = "movers") =>
       /\ \A k \in 1..Len(durations) :
            LET d == durations[k]
                IsG(r) == r.duration = d /\ r.type = "gainer"
                IsL(r) == r.duration = d /\ r.type = "loser"
                IsD(r) == r.duration = d
            IN /\ Count(result, IsG) = Len(resps[k].top_gainers)
               /\ Count(result, IsL) = Len(resps[k].top_losers)
               /\ Count(result, IsD) =
                     Len(resps[k].top_gainers) + Len(resps[k].top_losers)
       /\ \A k \in DOMAIN result :
            /\ result[k].duration \in Range(durations)
            /\ result[k].type \in {"gainer", "loser"}

C3_Witness ==
    /\ status = "ok" /\ op = "movers"
    /\ Len(durations) = 3
    /\ Len(resps[1].top_gainers) = 2 /\ Len(resps[1].top_losers) = 1
    /\ Len(resps[2].top_gainers) = 0 /\ Len(resps[2].top_losers) = 1
    /\ Len(result) = 4

DurationIndex(d) == CHOOSE k \in 1..Len(durations) : durations[k] = d

\* C9: the requests of a call follow the list of durations, one each, in
\* order; a successful call has made one per duration and its rows are
\* grouped by duration in request order, gainers before losers; a
\* malformed body is the last thing the call requested.
C9_RequestsInListOrder ==
    op = "movers" =>
       /\ Len(reqs) <= Len(durations)
       /\ \A k \in 1..Len(reqs) :
            reqs[k] = MoversRequest(durations[k], DefaultTopCoins)
       /\ status = "running" => Len(reqs) = i
       /\ \A k \in 1..Len(resps) : Malformed(resps[k]) => Len(reqs) = k
       /\ status = "ok" =>
            /\ Len(reqs) = Len(durations)
            /\ \A a, b \in DOMAIN result :
                 a < b =>
                   /\ DurationIndex(result[a].duration)
                         <= DurationIndex(result[b].duration)
                   /\ result[a].duration = result[b].duration =>
                         ~(result[a].type = "loser" /\ result[b].type = "gainer")

C9_Witness ==
    /\ op = "movers" /\ status = "ok"
    /\ Len(reqs) = 3
    /\ \E a, b \in DOMAIN result :
         /\ a < b
         /\ result[a].duration = "1h" /\ result[a].type = "loser"
         /\ result[b].duration = "7d" /\ result[b].type = "gainer"

====
